---- MODULE Spec2Model ----
(***************************************************************************)
(* A model of examples/mario/mario.py: the FCEUX movie encoder (fm2_line,  *)
(* fm2_lines, fm2_smb), DurationRepresentation.interpret, the fitness      *)
(* functions, the evaluation harness (SMBMI.compile over run_movie) and    *)
(* the replayer (new_bests_movie).                                         *)
(*                                                                         *)
(* A line of text is the sequence of the string pieces the code            *)
(* concatenates; a text is the sequence of its lines (what "\n".join is    *)
(* given).  Python's None is the empty set, an optional integer n is {n}.  *)
(* Text and bytes are not told apart: f.write(fm2), re.search on the       *)
(* captured stdout and the "%d" formatting of the queries are taken to     *)
(* succeed on the values they are given.                                   *)
(***************************************************************************)
EXTENDS Integers, Sequences, FiniteSets, TLC

VARIABLES
    call,       \* codec: the arguments of one fm2_smb call
    text,       \* codec: the lines fm2_smb returned
    encoded,    \* codec: fm2_smb has returned
    cfg,        \* decode: the configuration handed to interpret
    sets,       \* decode: the five sets interpret returned
    decoded,    \* decode: interpret has returned
    args,       \* harness: the parsed arguments (the fitness function)
    world,      \* harness: whether the emulator command can be spawned, and
                \*          the stdout the emulator prints for each movie
    batch,      \* harness: the configuration each compile call is given
    fs,         \* harness: the temporary files on disk, name -> content
    ev,         \* harness: each compile call's position and locals
    cids,       \* replayer: the new-best configuration ids, oldest first
    rpc,        \* replayer: position in new_bests_movie
    next,       \* replayer: index into cids of the loop's next configuration
    printed,    \* replayer: the texts printed so far, one per print call
    reported    \* replayer: the frame counts run_movie returned so far

codecVars  == <<call, text, encoded>>
decodeVars == <<cfg, sets, decoded>>
harnessVars == <<args, world, batch, fs, ev>>
replayVars == <<cids, rpc, next, printed, reported>>
vars == <<call, text, encoded, cfg, sets, decoded, args, world, batch, fs, ev,
          cids, rpc, next, printed, reported>>

None == {}
Some(n) == {n}
Val(opt) == CHOOSE n \in opt : TRUE

Max2(x, y) == IF x >= y THEN x ELSE y
SetMax(S) == CHOOSE x \in S : \A y \in S : y <= x

(***************************************************************************)
(* Bounds of the model.                                                    *)
(***************************************************************************)
\* input frame indices are 0..MaxIdx
MaxIdx == 1
\* at most this many (button, frame) presses in one encoder input
MaxPresses == 2

(***************************************************************************)
(* Movie encoder.                                                          *)
(***************************************************************************)
\* fm2_smb: x+196
PadOffset == 196
\* fm2_smb: start.add(33)
StartFrame == 33

fm2_line_swapped(up, down, left, right, a, b, start, select, reset) ==
    << IF reset THEN "|1|" ELSE "|0|",
       IF left THEN "L" ELSE ".",
       IF right THEN "R" ELSE ".",
       IF down THEN "D" ELSE ".",
       IF up THEN "U" ELSE ".",
       IF start THEN "T" ELSE ".",
       IF select THEN "D" ELSE ".",
       IF a THEN "A" ELSE ".",
       IF b THEN "B" ELSE ".",
       "|........||" >>

fm2_line(up, down, left, right, a, b, start, select, reset) ==
    << IF reset THEN "|1|" ELSE "|0|",
       IF right THEN "R" ELSE ".",
       IF left THEN "L" ELSE ".",
       IF down THEN "D" ELSE ".",
       IF up THEN "U" ELSE ".",
       IF start THEN "T" ELSE ".",
       IF select THEN "D" ELSE ".",
       IF b THEN "B" ELSE ".",
       IF a THEN "A" ELSE ".",
       "|........||" >>

maxd_nodefault(iterable, default) ==
    IF iterable = {} THEN default - 1 ELSE SetMax(iterable)

\* max(iterable), or default when max raises ValueError on an empty iterable
maxd(iterable, default) ==
    IF iterable = {} THEN default ELSE SetMax(iterable)

\* range(minFrame, maxFrame) is empty when maxFrame <= minFrame
fm2_lines(up, down, left, right, a, b, start, select, reset, minFrame, maxFrame) ==
    LET mn == IF minFrame = None THEN 0 ELSE Val(minFrame)
        mx == IF maxFrame = None
              THEN SetMax({maxd(up, 0), maxd(down, 0), maxd(left, 0),
                           maxd(right, 0), maxd(a, 0), maxd(b, 0),
                           maxd(start, 0), maxd(select, 0), maxd(reset, 0)}) + 1
              ELSE Val(maxFrame)
    IN  [k \in 1..(mx - mn) |->
            LET i == mn + k - 1
            IN  fm2_line(i \in up, i \in down, i \in left, i \in right,
                         i \in a, i \in b, i \in start, i \in select, i \in reset)]

fm2_smb_header ==
    << <<"version 3">>,
       <<"emuVersion 9828">>,
       <<"romFilename smb.nes">>,
       <<"romChecksum base64:jjYwGG411HcjG/j9UOVM3Q==">>,
       <<"guid 51473540-E9D7-11E3-ADFC-46CE3219C4E0">>,
       <<"fourscore 0">>,
       <<"port0 1">>,
       <<"port1 1">>,
       <<"port2 0">> >>

fm2_smb_startlate(left, right, down, b, a, header, padding, minFrame, maxFrame) ==
    LET sh(S) == IF padding THEN {x + PadOffset : x \in S} ELSE S
        reset == IF padding THEN {0} ELSE {}
        start == IF padding THEN {PadOffset - 1} ELSE {}
        lines == fm2_lines({}, sh(down), sh(left), sh(right), sh(a), sh(b),
                           start, {}, reset, minFrame, maxFrame)
    IN  IF header THEN fm2_smb_header \o lines ELSE lines

fm2_smb(left, right, down, b, a, header, padding, minFrame, maxFrame) ==
    LET sh(S) == IF padding THEN {x + PadOffset : x \in S} ELSE S
        reset == IF padding THEN {0} ELSE {}
        start == IF padding THEN {StartFrame} ELSE {}
        lines == fm2_lines({}, sh(down), sh(left), sh(right), sh(a), sh(b),
                           start, {}, reset, minFrame, maxFrame)
    IN  IF header THEN fm2_smb_header \o lines ELSE lines

(***************************************************************************)
(* Encoder inputs: up to MaxPresses presses of the five buttons on frames  *)
(* 0..MaxIdx; frame bounds omitted or taken around frame 0 and around the  *)
(* padded region.                                                          *)
(***************************************************************************)
Buttons == {"left", "right", "down", "b", "a"}
Idx == 0..MaxIdx
Of(P, button) == {p[2] : p \in {q \in P : q[1] = button}}

MinFrames == {None} \cup {Some(n) : n \in Idx \cup {PadOffset}}
MaxFrames == {None} \cup {Some(n) : n \in 0..(MaxIdx + 1)
                                         \cup {StartFrame + 1, PadOffset + MaxIdx + 1}}

NoCall == [left |-> {}, right |-> {}, down |-> {}, b |-> {}, a |-> {},
           header |-> FALSE, padding |-> FALSE, minFrame |-> None, maxFrame |-> None]

CodecIdle == call = NoCall /\ text = <<>> /\ encoded = FALSE

InitCodec ==
    /\ \E P \in SUBSET (Buttons \X Idx), h \in BOOLEAN, p \in BOOLEAN,
          mn \in MinFrames, mx \in MaxFrames :
          /\ Cardinality(P) <= MaxPresses
          /\ call = [left |-> Of(P, "left"), right |-> Of(P, "right"),
                     down |-> Of(P, "down"), b |-> Of(P, "b"), a |-> Of(P, "a"),
                     header |-> h, padding |-> p, minFrame |-> mn, maxFrame |-> mx]
    /\ text = <<>>
    /\ encoded = FALSE

Encode ==
    /\ ~encoded
    /\ text' = fm2_smb(call.left, call.right, call.down, call.b, call.a,
                       call.header, call.padding, call.minFrame, call.maxFrame)
    /\ encoded' = TRUE
    /\ UNCHANGED <<call, decodeVars, harnessVars, replayVars>>

(***************************************************************************)
(* DurationRepresentation.  A move symbol is the sequence of its           *)
(* characters; a configuration holds NumEntries moves and NumEntries jumps *)
(* (the code's range(0, 1000)).                                            *)
(***************************************************************************)
\* entries of each parameter family (1000 in the code)
NumEntries == 2

MoveSymbols ==
    { <<"R">>, <<"L">>, <<"R", "B">>, <<"L", "B">>, <<"N">>, <<"L", "R">>,
      <<"L", "R", "B">>, <<"R", "2">>, <<"R", "B", "2">>, <<"R", "3">>,
      <<"R", "B", "3">> }
\* move_duration is in 1..60, jump_frame in 0..24000, jump_duration in 1..32;
\* the model draws them from these samples
DurChoices == {1, 3, 5}
JumpChoices == { <<0, 1>>, <<2, 2>> }

\* letter in move
In(letter, move) == \E i \in DOMAIN move : move[i] = letter

RECURSIVE MoveLoop(_, _, _)
MoveLoop(c, i, acc) ==
    IF i > NumEntries THEN acc
    ELSE LET move == c.move[i]
             move_duration == c.move_duration[i]
             rng == acc.start..(acc.start + move_duration - 1)
         IN  MoveLoop(c, i + 1,
                 [right   |-> IF In("R", move) THEN acc.right \cup rng ELSE acc.right,
                  left    |-> IF In("L", move) THEN acc.left \cup rng ELSE acc.left,
                  running |-> IF In("B", move) THEN acc.running \cup rng ELSE acc.running,
                  start   |-> acc.start + move_duration])

RECURSIVE MoveLoopAdvanceFirst(_, _, _)
MoveLoopAdvanceFirst(c, i, acc) ==
    IF i > NumEntries THEN acc
    ELSE LET move == c.move[i]
             move_duration == c.move_duration[i]
             start == acc.start + move_duration
             rng == start..(start + move_duration - 1)
         IN  MoveLoopAdvanceFirst(c, i + 1,
                 [right   |-> IF In("R", move) THEN acc.right \cup rng ELSE acc.right,
                  left    |-> IF In("L", move) THEN acc.left \cup rng ELSE acc.left,
                  running |-> IF In("B", move) THEN acc.running \cup rng ELSE acc.running,
                  start   |-> start])

RECURSIVE JumpLoop(_, _, _)
JumpLoop(c, i, jumping) ==
    IF i > NumEntries THEN jumping
    ELSE LET jump_frame == c.jump_frame[i]
             jump_duration == c.jump_duration[i]
         IN  JumpLoop(c, i + 1,
                      jumping \cup (jump_frame..(jump_frame + jump_duration - 1)))

interpret_advance_first(c) ==
    LET m == MoveLoopAdvanceFirst(c, 1, [right |-> {}, left |-> {}, running |-> {}, start |-> 0])
    IN  <<m.left, m.right, {}, m.running, JumpLoop(c, 1, {})>>

\* returns left, right, down, running, jumping
interpret(c) ==
    LET m == MoveLoop(c, 1, [right |-> {}, left |-> {}, running |-> {}, start |-> 0])
    IN  <<m.left, m.right, {}, m.running, JumpLoop(c, 1, {})>>

InitDecode ==
    /\ \E mv \in [1..NumEntries -> MoveSymbols],
          md \in [1..NumEntries -> DurChoices],
          j \in [1..NumEntries -> JumpChoices] :
          cfg = [move |-> mv, move_duration |-> md,
                 jump_frame |-> [i \in 1..NumEntries |-> j[i][1]],
                 jump_duration |-> [i \in 1..NumEntries |-> j[i][2]]]
    /\ sets = <<>>
    /\ decoded = FALSE

Interpret ==
    /\ ~decoded
    /\ sets' = interpret(cfg)
    /\ decoded' = TRUE
    /\ UNCHANGED <<cfg, codecVars, harnessVars, replayVars>>

(***************************************************************************)
(* Fitness functions.  A float is the rational [num, den], den > 0;        *)
(* float('inf') is [num |-> 1, den |-> 0].  A call yields [exc, time]: the *)
(* exception it raises ("" when none) and the value it returns.            *)
(***************************************************************************)
Rat(n, d) == [num |-> n, den |-> d]
Inf == Rat(1, 0)
Returns(t) == [exc |-> "", time |-> t]
Raises(e) == [exc |-> e, time |-> Inf]

Progress(won, x_pos, elapsed_frames) == Returns(Rat(-x_pos, 1))

ProgressPlusTimeRemaining_nowin(won, x_pos, elapsed_frames) ==
    Returns(Rat(-x_pos, 1))

ProgressPlusTimeRemaining(won, x_pos, elapsed_frames) ==
    IF won THEN Returns(Rat(-(x_pos + 400 * 60 - elapsed_frames), 1))
    ELSE Returns(Rat(-x_pos, 1))

\* float(x_pos)/elapsed_frames raises ZeroDivisionError on elapsed_frames = 0
ProgressTimesAverageSpeed(won, x_pos, elapsed_frames) ==
    IF elapsed_frames = 0 THEN Raises("ZeroDivisionError")
    ELSE Returns(Rat((-x_pos) * x_pos, elapsed_frames))

FitnessFunctions == {"Progress", "ProgressPlusTimeRemaining", "ProgressTimesAverageSpeed"}

\* args.fitness_function(won, x_pos, elapsed_frames)
fitness_function(name, won, x_pos, elapsed_frames) ==
    CASE name = "Progress" -> Progress(won, x_pos, elapsed_frames)
      [] name = "ProgressPlusTimeRemaining" ->
            ProgressPlusTimeRemaining(won, x_pos, elapsed_frames)
      [] name = "ProgressTimesAverageSpeed" ->
            ProgressTimesAverageSpeed(won, x_pos, elapsed_frames)

(***************************************************************************)
(* The outcome pattern ^(won|died) (\d+) (\d+)$ under re.MULTILINE.  The   *)
(* captured stdout is the sequence of its lines, a line the sequence of    *)
(* its characters; neither \d+ nor a space matches a newline, so a match   *)
(* is one whole line, and re.search returns the first.                     *)
(***************************************************************************)
Digits == <<"0", "1", "2", "3", "4", "5", "6", "7", "8", "9">>
IsDigit(ch) == \E d \in DOMAIN Digits : Digits[d] = ch
DigitVal(ch) == (CHOOSE d \in DOMAIN Digits : Digits[d] = ch) - 1
\* \d+
IsDigits(str) == Len(str) >= 1 /\ \A i \in DOMAIN str : IsDigit(str[i])
\* int(str)
RECURSIVE int(_)
int(str) ==
    IF Len(str) = 0 THEN 0
    ELSE 10 * int(SubSeq(str, 1, Len(str) - 1)) + DigitVal(str[Len(str)])

Won == <<"w", "o", "n">>
Died == <<"d", "i", "e", "d">>

\* the groups of a line the pattern matches: the positions p < q of its two
\* separating spaces
Groups(line) ==
    {<<p, q>> \in (DOMAIN line) \X (DOMAIN line) :
        /\ p < q
        /\ line[p] = " " /\ line[q] = " "
        /\ SubSeq(line, 1, p - 1) \in {Won, Died}
        /\ IsDigits(SubSeq(line, p + 1, q - 1))
        /\ IsDigits(SubSeq(line, q + 1, Len(line)))}
Matches(line) == Groups(line) # {}

\* re.search: None, or the groups of the first matching line
re_search(stdout) ==
    LET hits == {i \in DOMAIN stdout : Matches(stdout[i])}
    IN  IF hits = {} THEN None
        ELSE LET i == CHOOSE h \in hits : \A g \in hits : h <= g
                 line == stdout[i]
                 pq == CHOOSE g \in Groups(line) : TRUE
             IN  Some([wl |-> SubSeq(line, 1, pq[1] - 1),
                       x_pos |-> int(SubSeq(line, pq[1] + 1, pq[2] - 1)),
                       framecount |-> int(SubSeq(line, pq[2] + 1, Len(line)))])

\* run_movie from re.search on: raise ValueError, or return the groups
run_movie(stdout) ==
    LET match == re_search(stdout)
    IN  IF match = None
        THEN [exc |-> "ValueError", wl |-> <<>>, x_pos |-> 0, framecount |-> 0]
        ELSE [exc |-> "", wl |-> Val(match).wl, x_pos |-> Val(match).x_pos,
              framecount |-> Val(match).framecount]

\* "won" in wl
won_in(wl) == \E i \in 1..(Len(wl) - 2) : SubSeq(wl, i, i + 2) = Won

(***************************************************************************)
(* Evaluation harness: SMBMI.compile running run_movie, one step per       *)
(* system call that other processes can observe.                           *)
(***************************************************************************)
\* concurrent compile calls
NumCalls == 2
\* configurations the search engine hands out
NumCfgs == 2

Cfgs == 1..NumCfgs
\* the random names tempfile can draw
Names == 1..NumCalls

\* the movie text fm2_smb(interpret(c)...) of configuration c, carried by the
\* configuration it is a function of
Movie(c) == <<"fm2", c>>
Empty == <<"empty", 0>>
Missing == <<"missing", 0>>
Unread == <<"unread", 0>>
Movies == {Movie(c) : c \in Cfgs}

Line_lost == <<"l", "o", "s", "t", " ", "3", " ", "2">>
Line_short == <<"w", "o", "n", " ", "3">>
Line_lead == <<" ", "w", "o", "n", " ", "3", " ", "2">>
Line_won == <<"w", "o", "n", " ", "3", " ", "2">>
Line_died == <<"d", "i", "e", "d", " ", "2", " ", "1">>
Line_zero == <<"d", "i", "e", "d", " ", "3", " ", "0">>
Line_long == <<"w", "o", "n", " ", "1", "2", " ", "1", "0">>
Line_spec == <<"w", "o", "n", " ", "3", "1", "6", "1", " ", "1", "2", "0", "0">>

\* what the emulator may print
Outputs ==
    { <<>>, <<Line_lost, Line_short>>, <<Line_lead>>, <<Line_won>>, <<Line_died>>,
      <<Line_zero>>, <<Line_short, Line_long, Line_died>>, <<Line_spec>> }
ConcOutputs == { <<Line_lost>>, <<Line_won>> }

NoResult == [state |-> "", time |-> Inf]
IdleCall == [pc |-> "idle", name |-> 0, child |-> "none", seen |-> Unread,
             stdout |-> <<>>, result |-> NoResult, exc |-> "", fitcalls |-> 0]

Callers == DOMAIN ev
Exists(n) == n \in DOMAIN fs
WriteFile(n, data) == [x \in (DOMAIN fs) \cup {n} |-> IF x = n THEN data ELSE fs[x]]
Unlink(n) == [x \in (DOMAIN fs) \ {n} |-> fs[x]]

AnyNames == Names

\* NamedTemporaryFile opens its random name with O_CREAT|O_EXCL and draws
\* another when the name exists
FreshNames == {n \in Names : ~Exists(n)}

delete_off == FALSE

\* NamedTemporaryFile(suffix=".fm2", delete=True)
delete == TRUE

Caught_none(exc) == FALSE

\* compile: except ValueError
Caught(exc) == exc = "ValueError"

\* with tempfile.NamedTemporaryFile(...) as f
CreateTemp(w) ==
    /\ ev[w].pc = "idle"
    /\ \E n \in FreshNames :
          /\ fs' = WriteFile(n, Empty)
          /\ ev' = [ev EXCEPT ![w].pc = "created", ![w].name = n]
    /\ UNCHANGED <<args, world, batch, codecVars, decodeVars, replayVars>>

\* f.write(fm2); f.flush()
WriteMovie(w) ==
    /\ ev[w].pc = "created"
    /\ fs' = WriteFile(ev[w].name, Movie(batch[w]))
    /\ ev' = [ev EXCEPT ![w].pc = "written"]
    /\ UNCHANGED <<args, world, batch, codecVars, decodeVars, replayVars>>

\* subprocess.Popen(cmd, ...) starts the child
Spawn(w) ==
    /\ ev[w].pc = "written"
    /\ world.launchable
    /\ ev' = [ev EXCEPT ![w].pc = "waiting", ![w].child = "running"]
    /\ UNCHANGED <<args, world, batch, fs, codecVars, decodeVars, replayVars>>

\* subprocess.Popen raises OSError: the with block is left by the exception
SpawnFail(w) ==
    /\ ev[w].pc = "written"
    /\ ~world.launchable
    /\ ev' = [ev EXCEPT ![w].pc = "closing", ![w].exc = "OSError"]
    /\ UNCHANGED <<args, world, batch, fs, codecVars, decodeVars, replayVars>>

\* the emulator opens the movie named on its command line (--playmov f.name)
ChildRead(w) ==
    /\ ev[w].child = "running"
    /\ ev[w].seen = Unread
    /\ ev' = [ev EXCEPT ![w].seen =
                 IF Exists(ev[w].name) THEN fs[ev[w].name] ELSE Missing]
    /\ UNCHANGED <<args, world, batch, fs, codecVars, decodeVars, replayVars>>

\* the emulator prints its outcome and exits
ChildExit(w) ==
    /\ ev[w].child = "running"
    /\ ev[w].seen # Unread
    /\ ev' = [ev EXCEPT ![w].child = "exited",
                        ![w].stdout = IF ev[w].seen \in DOMAIN world.emu
                                      THEN world.emu[ev[w].seen] ELSE <<>>]
    /\ UNCHANGED <<args, world, batch, fs, codecVars, decodeVars, replayVars>>

\* .communicate() returns once the child has exited
Communicate(w) ==
    /\ ev[w].pc = "waiting"
    /\ ev[w].child = "exited"
    /\ ev' = [ev EXCEPT ![w].pc = "closing"]
    /\ UNCHANGED <<args, world, batch, fs, codecVars, decodeVars, replayVars>>

\* leaving the with block closes the file, which deletes it
CloseTemp(w) ==
    /\ ev[w].pc = "closing"
    /\ fs' = IF delete THEN Unlink(ev[w].name) ELSE fs
    /\ ev' = [ev EXCEPT ![w].pc = IF ev[w].exc = "" THEN "parsing" ELSE "raised"]
    /\ UNCHANGED <<args, world, batch, codecVars, decodeVars, replayVars>>

\* run_movie from re.search on, and what compile does with its outcome
Finish(w) ==
    /\ ev[w].pc = "parsing"
    /\ LET m == run_movie(ev[w].stdout)
       IN  IF m.exc # ""
           THEN IF Caught(m.exc)
                THEN ev' = [ev EXCEPT ![w].pc = "returned",
                                      ![w].result = [state |-> "ERROR", time |-> Inf]]
                ELSE ev' = [ev EXCEPT ![w].pc = "raised", ![w].exc = m.exc]
           ELSE LET fit == fitness_function(args.fitness_function, won_in(m.wl),
                                            m.x_pos, m.framecount)
                IN  IF fit.exc # ""
                    THEN ev' = [ev EXCEPT ![w].pc = "raised", ![w].exc = fit.exc,
                                          ![w].fitcalls = @ + 1]
                    ELSE ev' = [ev EXCEPT ![w].pc = "returned",
                                          ![w].result = [state |-> "OK", time |-> fit.time],
                                          ![w].fitcalls = @ + 1]
    /\ UNCHANGED <<args, world, batch, fs, codecVars, decodeVars, replayVars>>

HarnessIdle ==
    /\ args = [fitness_function |-> "Progress"]
    /\ world = [launchable |-> TRUE, emu |-> [m \in Movies |-> <<>>]]
    /\ batch = <<>>
    /\ fs = <<>>
    /\ ev = <<>>

\* one compile call, any emulator output
InitEval ==
    /\ args \in [fitness_function : FitnessFunctions]
    /\ world \in [launchable : BOOLEAN, emu : [Movies -> Outputs]]
    /\ batch \in [{1} -> Cfgs]
    /\ fs = <<>>
    /\ ev = [w \in {1} |-> IdleCall]

\* NumCalls concurrent compile calls, the w-th given configuration w (modulo
\* NumCfgs)
InitConc ==
    /\ args \in [fitness_function : FitnessFunctions]
    /\ world \in [launchable : BOOLEAN, emu : [Movies -> ConcOutputs]]
    /\ batch = [w \in 1..NumCalls |-> ((w - 1) % NumCfgs) + 1]
    /\ fs = <<>>
    /\ ev = [w \in 1..NumCalls |-> IdleCall]

NextHarness ==
    \/ \E w \in Callers : CreateTemp(w)
    \/ \E w \in Callers : WriteMovie(w)
    \/ \E w \in Callers : Spawn(w)
    \/ \E w \in Callers : SpawnFail(w)
    \/ \E w \in Callers : ChildRead(w)
    \/ \E w \in Callers : ChildExit(w)
    \/ \E w \in Callers : Communicate(w)
    \/ \E w \in Callers : CloseTemp(w)
    \/ \E w \in Callers : Finish(w)

(***************************************************************************)
(* Replayer: new_bests_movie.  The database holds, per configuration id, a *)
(* DurationRepresentation configuration; run_movie is one step here, its   *)
(* emulator output any of ReplayOutputs or a failed spawn.                 *)
(***************************************************************************)
\* new-best results of the tuning run
MaxBests == 2

Line_far == <<"w", "o", "n", " ", "9", " ", "1", "9", "8">>
ReplayOutputs == { <<Line_lost>>, <<Line_won>>, <<Line_zero>>, <<Line_far>> }

Uniform(sym, dur, jf, jd) ==
    [move |-> [i \in 1..NumEntries |-> sym],
     move_duration |-> [i \in 1..NumEntries |-> dur],
     jump_frame |-> [i \in 1..NumEntries |-> jf],
     jump_duration |-> [i \in 1..NumEntries |-> jd]]
\* select quote(data) from configuration where id = cid, unpickled
database == << Uniform(<<"R">>, 1, 0, 1), Uniform(<<"L", "B">>, 1, 1, 1) >>

trimmed_movie_headed(c, framecount) ==
    LET s5 == interpret(c)
    IN  fm2_smb(s5[1], s5[2], s5[3], s5[4], s5[5], TRUE, TRUE, None, Some(framecount))

\* fm2_smb(left, right, down, running, jumping, header=False, maxFrame=framecount)
trimmed_movie(c, framecount) ==
    LET s5 == interpret(c)
    IN  fm2_smb(s5[1], s5[2], s5[3], s5[4], s5[5], FALSE, TRUE, None, Some(framecount))

ReplayIdle ==
    /\ cids = <<>> /\ rpc = "off" /\ next = 0 /\ printed = <<>> /\ reported = <<>>

InitReplay ==
    /\ cids \in UNION {[1..n -> DOMAIN database] : n \in 0..MaxBests}
    /\ rpc = "start"
    /\ next = 1
    /\ printed = <<>>
    /\ reported = <<>>

\* print('\n'.join(fm2_smb_header()))
PrintHeader ==
    /\ rpc = "start"
    /\ printed' = Append(printed, fm2_smb_header)
    /\ rpc' = "loop"
    /\ UNCHANGED <<cids, next, reported, codecVars, decodeVars, harnessVars>>

\* one pass of the loop whose run_movie returns
ReplayOne ==
    /\ rpc = "loop"
    /\ next <= Len(cids)
    /\ \E stdout \in ReplayOutputs :
          LET m == run_movie(stdout)
          IN  /\ m.exc = ""
              /\ printed' = Append(printed,
                                   trimmed_movie(database[cids[next]], m.framecount))
              /\ reported' = Append(reported, m.framecount)
              /\ next' = next + 1
    /\ UNCHANGED <<cids, rpc, codecVars, decodeVars, harnessVars>>

\* one pass of the loop whose run_movie raises: nothing handles it
ReplayRaise ==
    /\ rpc = "loop"
    /\ next <= Len(cids)
    /\ \E launched \in BOOLEAN, stdout \in ReplayOutputs :
          \/ ~launched
          \/ run_movie(stdout).exc # ""
    /\ rpc' = "raised"
    /\ UNCHANGED <<cids, next, printed, reported, codecVars, decodeVars, harnessVars>>

\* the loop is exhausted
ReplayDone ==
    /\ rpc = "loop"
    /\ next > Len(cids)
    /\ rpc' = "done"
    /\ UNCHANGED <<cids, next, printed, reported, codecVars, decodeVars, harnessVars>>

NextReplay == PrintHeader \/ ReplayOne \/ ReplayRaise \/ ReplayDone

DecodeIdle == cfg = <<>> /\ sets = <<>> /\ decoded = FALSE

InitCodecAlone == InitCodec /\ DecodeIdle /\ HarnessIdle /\ ReplayIdle
InitDecodeAlone == InitDecode /\ CodecIdle /\ HarnessIdle /\ ReplayIdle
InitEvalAlone == InitEval /\ CodecIdle /\ DecodeIdle /\ ReplayIdle
InitConcAlone == InitConc /\ CodecIdle /\ DecodeIdle /\ ReplayIdle
InitReplayAlone == InitReplay /\ CodecIdle /\ DecodeIdle /\ HarnessIdle

NextCodec == Encode
NextDecode == Interpret

\* fm2_smb applied to every bounded input
SpecCodec == InitCodecAlone /\ [][NextCodec]_vars
\* DurationRepresentation.interpret applied to every bounded configuration
SpecDecode == InitDecodeAlone /\ [][NextDecode]_vars
\* one compile call
SpecEval == InitEvalAlone /\ [][NextHarness]_vars
\* NumCalls compile calls interleaved
SpecConc == InitConcAlone /\ [][NextHarness]_vars
\* new_bests_movie
SpecReplay == InitReplayAlone /\ [][NextReplay]_vars

(***************************************************************************)
(* Properties of the encoder.                                              *)
(***************************************************************************)
HeaderLen == IF call.header THEN Len(fm2_smb_header) ELSE 0
Shifted(S) == IF call.padding THEN {x + PadOffset : x \in S} ELSE S
MinOrZero == IF call.minFrame = None THEN 0 ELSE Val(call.minFrame)
NumFrameLines == Len(text) - HeaderLen
\* the line emitted for the k-th frame of the track, k counted from 0
FrameLine(k) == text[HeaderLen + k + 1]
Cell(pressed, letter) == IF pressed THEN letter ELSE "."
PressedFrames == UNION {Shifted(call[button]) : button \in Buttons}
InputIdx == UNION {call[button] : button \in Buttons}
BothBounds ==
    /\ call.minFrame # None
    /\ call.maxFrame # None
    /\ Val(call.minFrame) <= Val(call.maxFrame)
DefaultBounds == call.minFrame = None /\ call.maxFrame = None

\* C6: with bounds minFrame <= maxFrame the encoder emits maxFrame - minFrame
\* frame lines, after the nine header lines exactly when the header is
\* requested; the k-th frame line describes frame minFrame + k and shows a
\* button's letter iff that frame is in the button's set after the padding
\* offset, in the order right, left, down, up, start, select, B, A, up and
\* select always '.'.
C6_FrameLines ==
    (encoded /\ BothBounds) =>
        /\ Len(text) = (IF call.header THEN 9 ELSE 0)
                         + (Val(call.maxFrame) - Val(call.minFrame))
        /\ call.header => SubSeq(text, 1, 9) = fm2_smb_header
        /\ \A k \in 0..(Val(call.maxFrame) - Val(call.minFrame) - 1) :
              LET f == Val(call.minFrame) + k
                  L == text[(IF call.header THEN 9 ELSE 0) + k + 1]
              IN  /\ Len(L) = 10
                  /\ L[2] = Cell(f \in Shifted(call.right), "R")
                  /\ L[3] = Cell(f \in Shifted(call.left), "L")
                  /\ L[4] = Cell(f \in Shifted(call.down), "D")
                  /\ L[5] = "."
                  /\ L[6] = Cell(call.padding /\ f = StartFrame, "T")
                  /\ L[7] = "."
                  /\ L[8] = Cell(f \in Shifted(call.b), "B")
                  /\ L[9] = Cell(f \in Shifted(call.a), "A")
                  /\ L[10] = "|........||"

\* a padded, headed track from frame 0 that shows the start press, a right
\* press and a jump press
C6_Witness ==
    /\ encoded /\ BothBounds /\ call.header /\ call.padding
    /\ Val(call.minFrame) = 0
    /\ \E k \in 0..(NumFrameLines - 1) : FrameLine(k)[6] = "T"
    /\ \E k \in 0..(NumFrameLines - 1) : FrameLine(k)[2] = "R"
    /\ \E k \in 0..(NumFrameLines - 1) : FrameLine(k)[9] = "A"

\* C7 (as amended): with maxFrame omitted the track ends one past the largest
\* frame among the five (shifted) button sets, the synthesized reset and start
\* frames and frame 0; five empty sets give 1 frame line without padding and
\* StartFrame + 1 with it (less minFrame); every press at or after minFrame is
\* covered.
C7_DefaultMaxFrame ==
    (encoded /\ call.maxFrame = None) =>
        LET synth == IF call.padding THEN {0, StartFrame} ELSE {}
            last == SetMax(PressedFrames \cup synth \cup {0})
        IN  /\ NumFrameLines = Max2(0, last + 1 - MinOrZero)
            /\ InputIdx = {} =>
                  NumFrameLines =
                      Max2(0, (IF call.padding THEN StartFrame + 1 ELSE 1) - MinOrZero)
            /\ \A f \in PressedFrames \cup synth :
                  f >= MinOrZero => f - MinOrZero < NumFrameLines

\* five empty sets, no padding, default bounds: one frame line
C7_Witness ==
    /\ encoded /\ DefaultBounds /\ ~call.padding /\ ~call.header
    /\ InputIdx = {}
    /\ Len(text) = 1

\* C7 (as stated): with maxFrame omitted, maxFrame is one past the largest
\* frame in the five sets, and minFrame when all five are empty (no frame line).
C7_Original ==
    (encoded /\ call.maxFrame = None) =>
        IF InputIdx = {}
        THEN NumFrameLines = 0
        ELSE NumFrameLines = Max2(0, SetMax(PressedFrames) + 1 - MinOrZero)

\* the frames of the emitted track whose line shows the start press
StartPressFrames == {k \in 0..(NumFrameLines - 1) : FrameLine(k)[6] = "T"}
ResetFrames == {k \in 0..(NumFrameLines - 1) : FrameLine(k)[1] = "|1|"}
GameplayFrames ==
    {k \in 0..(NumFrameLines - 1) :
        \E i \in {2, 3, 4, 8, 9} : FrameLine(k)[i] # "."}

\* C8 (as amended): with padding and default bounds every input index is
\* shifted by PadOffset, the reset flag is set on frame 0 only, start is
\* pressed on frame StartFrame only, and no gameplay press is emitted before
\* frame PadOffset, which is PadOffset - StartFrame frames after the start
\* press (not the frame right after it).
C8_Padding ==
    (encoded /\ call.padding /\ DefaultBounds) =>
        /\ \A k \in 0..(NumFrameLines - 1) :
              /\ FrameLine(k)[2] = "R" <=> (k - PadOffset) \in call.right
              /\ FrameLine(k)[3] = "L" <=> (k - PadOffset) \in call.left
              /\ FrameLine(k)[4] = "D" <=> (k - PadOffset) \in call.down
              /\ FrameLine(k)[8] = "B" <=> (k - PadOffset) \in call.b
              /\ FrameLine(k)[9] = "A" <=> (k - PadOffset) \in call.a
        /\ GameplayFrames = {i + PadOffset : i \in InputIdx}
        /\ ResetFrames = {0}
        /\ StartPressFrames = {StartFrame}
        /\ \A k \in GameplayFrames : k >= PadOffset /\ k > StartFrame + 1

\* padded, default bounds, input pressed on index 0
C8_Witness ==
    /\ encoded /\ call.padding /\ DefaultBounds
    /\ 0 \in InputIdx
    /\ PadOffset \in GameplayFrames
    /\ StartPressFrames # {}

\* C8 (as stated): the start press is on the frame at which the warm-up ends,
\* so an input on index 0 is emitted on the frame right after the start press.
C8_Original ==
    (encoded /\ call.padding /\ DefaultBounds /\ 0 \in InputIdx) =>
        \E s \in StartPressFrames : s + 1 \in GameplayFrames

(***************************************************************************)
(* Properties of the duration-run decode.                                  *)
(***************************************************************************)
\* the sum of the durations of the pairs before the i-th
RECURSIVE StartOf(_)
StartOf(i) == IF i = 1 THEN 0 ELSE StartOf(i - 1) + cfg.move_duration[i - 1]
FiniteRangeOf(i) == StartOf(i)..(StartOf(i) + cfg.move_duration[i] - 1)
WithR == { <<"R">>, <<"R", "B">>, <<"L", "R">>, <<"L", "R", "B">>, <<"R", "2">>,
           <<"R", "B", "2">>, <<"R", "3">>, <<"R", "B", "3">> }
WithL == { <<"L">>, <<"L", "B">>, <<"L", "R">>, <<"L", "R", "B">> }
WithB == { <<"R", "B">>, <<"L", "B">>, <<"L", "R", "B">>, <<"R", "B", "2">>,
           <<"R", "B", "3">> }
Entries == 1..NumEntries

\* C9: the i-th (move, duration) pair covers [S_i, S_i + d_i), S_i the sum of
\* the earlier durations, so move ranges are contiguous and disjoint; the
\* range goes to right iff the symbol has 'R', to left iff 'L', to run iff
\* 'B'; down is empty; moves ("R",5), ("L",3) give right 0..4, left 5..7 and
\* no run on those frames.
C9_DurationRanges ==
    decoded =>
        /\ sets[2] = UNION {FiniteRangeOf(i) : i \in {j \in Entries : cfg.move[j] \in WithR}}
        /\ sets[1] = UNION {FiniteRangeOf(i) : i \in {j \in Entries : cfg.move[j] \in WithL}}
        /\ sets[4] = UNION {FiniteRangeOf(i) : i \in {j \in Entries : cfg.move[j] \in WithB}}
        /\ sets[3] = {}
        /\ \A i \in Entries : Cardinality(FiniteRangeOf(i)) = cfg.move_duration[i]
        /\ \A i, j \in Entries :
              /\ i # j => FiniteRangeOf(i) \cap FiniteRangeOf(j) = {}
              /\ j = i + 1 => StartOf(j) = StartOf(i) + cfg.move_duration[i]
        /\ ( /\ cfg.move[1] = <<"R">> /\ cfg.move_duration[1] = 5
             /\ cfg.move[2] = <<"L">> /\ cfg.move_duration[2] = 3 )
           => /\ sets[2] \cap (0..7) = 0..4
              /\ sets[1] \cap (0..7) = {5, 6, 7}
              /\ sets[4] \cap (0..7) = {}

\* the decode of moves ("R",5), ("L",3)
C9_Witness ==
    /\ decoded
    /\ cfg.move[1] = <<"R">> /\ cfg.move_duration[1] = 5
    /\ cfg.move[2] = <<"L">> /\ cfg.move_duration[2] = 3
    /\ sets[2] = 0..4
    /\ sets[1] = {5, 6, 7}

(***************************************************************************)
(* Properties of the evaluation harness.                                   *)
(***************************************************************************)
Done(w) == ev[w].pc \in {"returned", "raised"}
ErrorResult == [state |-> "ERROR", time |-> Inf]

\* the emulator outputs with no line of the form "<won|died> <digits> <digits>"
NoOutcomeOutputs == { <<>>, <<Line_lost, Line_short>>, <<Line_lead>>, <<Line_lost>> }
\* the other outputs, with the outcome their first such line reports
Reported(stdout) ==
    CASE stdout = <<Line_won>>  -> [won |-> TRUE,  pos |-> 3,    frames |-> 2]
      [] stdout = <<Line_died>> -> [won |-> FALSE, pos |-> 2,    frames |-> 1]
      [] stdout = <<Line_zero>> -> [won |-> FALSE, pos |-> 3,    frames |-> 0]
      [] stdout = <<Line_spec>> -> [won |-> TRUE,  pos |-> 3161, frames |-> 1200]
      [] stdout = <<Line_short, Line_long, Line_died>>
                                -> [won |-> TRUE,  pos |-> 12,   frames |-> 10]

\* the score the claim gives for an outcome, as numerator and denominator
ClaimedScore(name, o) ==
    CASE name = "Progress" -> Rat(-o.pos, 1)
      [] name = "ProgressPlusTimeRemaining" ->
            IF o.won THEN Rat(-(o.pos + 24000 - o.frames), 1) ELSE Rat(-o.pos, 1)
      [] name = "ProgressTimesAverageSpeed" -> Rat(-(o.pos * o.pos), o.frames)

C2_SpawnFailureIsError ==
    \A w \in Callers :
        (Done(w) /\ ~world.launchable) =>
            /\ ev[w].pc = "returned"
            /\ ev[w].result = ErrorResult

C4_ArtifactLifetime ==
    /\ [](\A w \in Callers :
            /\ ev[w].child = "running" => Exists(ev[w].name)
            /\ Done(w) => ~Exists(ev[w].name) /\ ev[w].child # "running")
    /\ [][\A w \in Callers :
            /\ (ev[w].child = "none" /\ ev'[w].child = "running") =>
                  /\ Exists(ev[w].name)
                  /\ fs[ev[w].name] = Movie(batch[w])
            /\ (ev[w].name # 0 /\ Exists(ev[w].name) /\ ev[w].name \notin DOMAIN fs') =>
                  /\ ev[w].child # "running"
                  /\ ev[w].pc = "closing"]_vars

\* an error-path call that has returned: its child ran and exited, its movie
\* is gone
C4_Witness ==
    \E w \in Callers :
        /\ ev[w].pc = "returned"
        /\ ev[w].result = ErrorResult
        /\ ev[w].child = "exited"
        /\ ev[w].seen = Movie(batch[w])
        /\ ~Exists(ev[w].name)

\* what a compile call of configuration c yields when it runs alone
AloneOutcome(c) ==
    IF ~world.launchable THEN [pc |-> "raised", result |-> NoResult]
    ELSE IF world.emu[Movie(c)] \in NoOutcomeOutputs
         THEN [pc |-> "returned", result |-> ErrorResult]
         ELSE [pc |-> "returned",
               result |-> [state |-> "OK",
                           time |-> ClaimedScore(args.fitness_function,
                                                 Reported(world.emu[Movie(c)]))]]
HoldsFile(w) == ev[w].pc \in {"created", "written", "waiting", "closing"}

\* C5: in any interleaving of concurrent compile calls, each emulator reads
\* the movie its own call wrote, no call's movie is overwritten or deleted
\* by another call, and each call's result is the one it yields alone.
C5_Isolation ==
    /\ \A w \in Callers :
          /\ ev[w].seen # Unread => ev[w].seen = Movie(batch[w])
          /\ HoldsFile(w) =>
                /\ Exists(ev[w].name)
                /\ fs[ev[w].name] = IF ev[w].pc = "created" THEN Empty
                                    ELSE Movie(batch[w])
          /\ Done(w) =>
                /\ ev[w].pc = AloneOutcome(batch[w]).pc
                /\ ev[w].result = AloneOutcome(batch[w]).result
    /\ \A v, w \in Callers :
          (v # w /\ HoldsFile(v) /\ HoldsFile(w)) => ev[v].name # ev[w].name

\* two emulators running at once on different movies, each having read its own
C5_Witness ==
    \E v, w \in Callers :
        /\ v # w
        /\ batch[v] # batch[w]
        /\ ev[v].child = "running" /\ ev[v].seen = Movie(batch[v])
        /\ ev[w].child = "running" /\ ev[w].seen = Movie(batch[w])

(***************************************************************************)
(* Properties of the replayer.                                             *)
(***************************************************************************)
IsFrameLine(L) == Len(L) = 10 /\ L[1] \in {"|0|", "|1|"}

====
